---- MODULE Spec2Model ----
(***************************************************************************)
(* Interference graph of the register allocator (opt/regalloc)             *)
(* Graph, Node, impl::OrderedPair and impl::GraphBuilder of Interference.h *)
(* as a state machine: the builder fills a fresh Graph (make_node,         *)
(* add_edge, add_coalesceable_edge, add_containment_edge), then the        *)
(* allocator mutates it in place (remove_node, combine).                   *)
(***************************************************************************)
EXTENDS Integers, Sequences, FiniteSets, TLC

\* ------------------------------------------------------------------ bounds
\* Register ids in use are 0..MaxReg.
MaxReg == 2
\* The encoding limit make_node is given as max_vreg.
MaxVreg == 1
\* At most MaxEdges interference edges are recorded by the builder.
MaxEdges == 2
\* At most MaxContain containment edges are recorded by the builder.
MaxContain == 2

\* At most MaxBuildEdges interference edges come out of GraphBuilder::build.
MaxBuildEdges == 3
\* Instructions a RangeSet is given are 1..MaxInsn.
MaxInsn == 3
\* At most MaxEmplace calls of RangeSet::emplace are made.
MaxEmplace == 4

\* At most MaxRegistered passes are registered with a PassManager.
MaxRegistered == 2
\* redex.passes of the config lists at most MaxConfigured names.
MaxConfigured == 2
\* At most MaxMetricCalls calls of incr_metric, set_metric and get_metric.
MaxMetricCalls == 2

Regs == 0 .. MaxReg
Insns == 1 .. MaxInsn
\* Node::width(): 1, or 2 for a wide value.
Widths == {1, 2}
MaxVregs == {MaxVreg}

VARIABLES
    m_nodes,             \* Graph::m_nodes: reg_t -> Node, a partial map
    m_adj_matrix,        \* Graph::m_adj_matrix: Edge -> not_coalesceable
    m_containment_graph, \* Graph::m_containment_graph: set of (u, v)
    phase,               \* "build" while GraphBuilder owns the graph, then "alloc"
    last                 \* history: the last allocator operation and its arguments

VARIABLES
    m_range_vec,         \* RangeSet::m_range_vec: instructions in insertion order
    m_range_set,         \* RangeSet::m_range_set: the lookup set
    emplaced             \* history: the arguments of the emplace calls, in order

VARIABLES
    m_registered_passes, \* PassManager::m_registered_passes: name() of each Pass
    m_config,            \* PassManager::m_config: what the manager reads of it
    m_activated_passes,  \* PassManager::m_activated_passes: positions in m_registered_passes
    configured,          \* history: the passes configure_pass was called on, in order
    m_pass_info,         \* PassManager::m_pass_info
    m_current_pass_info, \* position in m_pass_info, 0 for nullptr
    pc,                  \* where the manager's code is
    idx,                 \* the loop variable of init and of run_passes
    calls,               \* history: eval_pass, run_pass and type checker calls
    outcome,             \* how the last metric call ended
    metric_calls         \* history: the number of metric calls made

graph_vars == <<m_nodes, m_adj_matrix, m_containment_graph, phase, last>>
range_vars == <<m_range_vec, m_range_set, emplaced>>
manager_vars ==
    <<m_registered_passes, m_config, m_activated_passes, configured,
      m_pass_info, m_current_pass_info, pc, idx, calls, outcome, metric_calls>>
vars == <<graph_vars, range_vars, manager_vars>>

\* ----------------------------------------------------------------- helpers
Min(a, b) == IF a <= b THEN a ELSE b
Max(a, b) == IF a <= b THEN b ELSE a

\* std::vector membership, erase-by-value and push_back on m_adjacent.
InSeq(s, x) == \E i \in 1 .. Len(s) : s[i] = x
Occurrences(s, x) == Cardinality({i \in 1 .. Len(s) : s[i] = x})
Erase(s, x) == SelectSeq(s, LAMBDA y : y # x)

\* An edge key that keeps the order of its arguments.
Edge_Unordered(u, v) == <<u, v>>

\* impl::OrderedPair<reg_t>(u, v): first = min, second = max.
Edge(u, v) == <<Min(u, v), Max(u, v)>>

\* using ContainmentEdge = std::pair<reg_t, reg_t>: ordered as given.
ContainmentEdge(u, v) == <<u, v>>

\* impl::div_ceil: (a + b - 1) / b. The operands are widths and max_vreg + 1
\* (at most 65536), so the uint32_t sum does not wrap.
div_ceil(a, b) == (a + b - 1) \div b

\* A node that is born inactive.
NewNode_Inactive(width, max_vreg) ==
    [m_weight |-> 0, m_max_vreg |-> max_vreg, m_width |-> width,
     active |-> FALSE, m_adjacent |-> <<>>]

\* A node that is born with a weight although it has no neighbour.
NewNode_Weighted(width, max_vreg) ==
    [m_weight |-> 1, m_max_vreg |-> max_vreg, m_width |-> width,
     active |-> TRUE, m_adjacent |-> <<>>]

\* Node::Node() sets ACTIVE; m_weight{0}, m_adjacent empty. make_node then
\* stores the width of the register type and the max_vreg it is given.
NewNode(width, max_vreg) ==
    [m_weight |-> 0, m_max_vreg |-> max_vreg, m_width |-> width,
     active |-> TRUE, m_adjacent |-> <<>>]

\* ------------------------------------------------------- Graph: the queries
\* m_adj_matrix.find(e) != end(), on a map value.
HasKey(f, k) == \E x \in DOMAIN f : x = k

\* A lookup of the matrix under the pair as given, not its canonical form.
is_adjacent_Ordered(u, v) == HasKey(m_adj_matrix, <<u, v>>)

\* Graph::is_adjacent
is_adjacent(u, v) == HasKey(m_adj_matrix, Edge(u, v))

\* A reading of the marker as "coalesceable" rather than "not coalesceable".
is_coalesceable_Unnegated(u, v) ==
    IF is_adjacent(u, v) THEN m_adj_matrix[Edge(u, v)] ELSE TRUE

\* Graph::is_coalesceable: the marker is read only when the edge exists.
is_coalesceable(u, v) ==
    IF is_adjacent(u, v) THEN ~m_adj_matrix[Edge(u, v)] ELSE TRUE

\* m_adj_matrix.at(e): the marker, or std::out_of_range (ok = FALSE) when the
\* matrix has no entry for e.
matrix_at(e) ==
    IF HasKey(m_adj_matrix, e)
    THEN [ok |-> TRUE, val |-> m_adj_matrix[e]]
    ELSE [ok |-> FALSE, val |-> FALSE]

\* A call of is_coalesceable that reads the marker without asking
\* is_adjacent first.
is_coalesceable_call_Unchecked(u, v) ==
    [ok |-> matrix_at(Edge(u, v)).ok, val |-> ~matrix_at(Edge(u, v)).val]

\* A call of Graph::is_coalesceable(u, v) with its outcome: || evaluates
\* at() only when is_adjacent(u, v) holds.
is_coalesceable_call(u, v) ==
    IF ~is_adjacent(u, v) THEN [ok |-> TRUE, val |-> TRUE]
    ELSE [ok |-> matrix_at(Edge(u, v)).ok, val |-> ~matrix_at(Edge(u, v)).val]

\* A containment query that looks the pair up the wrong way round.
has_containment_edge_Reversed(u, v) == <<v, u>> \in m_containment_graph

\* Graph::has_containment_edge
has_containment_edge(u, v) == ContainmentEdge(u, v) \in m_containment_graph

\* A view of the node table that does not filter on ACTIVE.
active_nodes_Unfiltered == DOMAIN m_nodes

\* Graph::active_nodes: m_nodes filtered by ActiveFilter, evaluated on the
\* current flags.
active_nodes == {r \in DOMAIN m_nodes : m_nodes[r].active}

\* Node::adjacent of the node of r.
adjacent(r) == m_nodes[r].m_adjacent

\* impl::edge_weight(u_width, v_width): what a neighbour of width v_width adds
\* to the weight of a node of width u_width.
edge_weight(u_width, v_width) == div_ceil(v_width, u_width)

\* Node::colorable_limit
colorable_limit(n) == div_ceil(n.m_max_vreg + 1, n.m_width)

\* Node::definitely_colorable: a method of Node, so it reads the node's own
\* fields only.
definitely_colorable(n) == n.m_weight < colorable_limit(n)

\* The same map with one entry set (std::unordered_map operator[] / emplace).
MapSet(f, k, val) == [x \in DOMAIN f \cup {k} |-> IF x = k THEN val ELSE f[x]]

\* ------------------------------------------------------------ the builder
\* Graph() = default: the maps are empty.
EmptyMap == [x \in {} |-> x]

\* last.acted: the operation changed the graph; last.self: combine met a
\* containment edge between its two arguments.
NoOp == [op |-> "build", u |-> 0, v |-> 0, acted |-> FALSE, self |-> FALSE]

\* A RangeSet as constructed: both containers empty.
RangeSetInit ==
    /\ m_range_vec = <<>>
    /\ m_range_set = {}
    /\ emplaced = <<>>

\* The json the manager is given, as far as it reads it: redex.passes (when
\* has_passes), the ir_type_checker entry (when has_checker) with its
\* run_after_each_pass and run_after_passes.
Config(has_passes, passes, has_checker, each, triggers) ==
    [has_passes |-> has_passes, passes |-> passes, has_checker |-> has_checker,
     run_after_each_pass |-> each, run_after_passes |-> triggers]

\* No PassManager has been constructed.
NoManager ==
    /\ m_registered_passes = <<>>
    /\ m_config = Config(FALSE, <<>>, FALSE, FALSE, {})
    /\ m_activated_passes = <<>>
    /\ configured = <<>>
    /\ m_pass_info = <<>>
    /\ m_current_pass_info = 0
    /\ pc = "none"
    /\ idx = 0
    /\ calls = <<>>
    /\ outcome = "none"
    /\ metric_calls = 0

Init ==
    /\ m_nodes = EmptyMap
    /\ m_adj_matrix = EmptyMap
    /\ m_containment_graph = {}
    /\ phase = "build"
    /\ last = NoOp
    /\ RangeSetInit
    /\ NoManager

\* A graph as a value, for the operations that are applied in a loop.
Graph == [nodes |-> m_nodes, adj |-> m_adj_matrix]

\* Graph::add_edge(u, v, can_coalesce) on a graph value: a new edge appends
\* each end to the other's m_adjacent and accumulates edge_weight on both
\* ends; the marker of an edge recorded more than once is the OR of
\* "not coalesceable".
add_edge(g, u, v, can_coalesce) ==
    IF u = v THEN g
    ELSE
      LET e == Edge(u, v)
          known == HasKey(g.adj, e)
          nu == g.nodes[u]
          nv == g.nodes[v]
      IN [nodes |->
            IF known THEN g.nodes
            ELSE [g.nodes EXCEPT
                    ![u] = [nu EXCEPT
                              !.m_adjacent = Append(@, v),
                              !.m_weight = @ + edge_weight(nu.m_width, nv.m_width)],
                    ![v] = [nv EXCEPT
                              !.m_adjacent = Append(@, u),
                              !.m_weight = @ + edge_weight(nv.m_width, nu.m_width)]],
          adj |->
            MapSet(g.adj, e, (known /\ g.adj[e]) \/ ~can_coalesce)]

\* GraphBuilder::make_node(graph, r, type, max_vreg); registers get their
\* nodes in increasing order of id.
MakeNode(r, width, max_vreg) ==
    /\ phase = "build"
    /\ ~HasKey(m_nodes, r)
    /\ r = Cardinality(DOMAIN m_nodes)
    /\ m_nodes' = MapSet(m_nodes, r, NewNode(width, max_vreg))
    /\ UNCHANGED <<m_adj_matrix, m_containment_graph, phase, last>>
    /\ UNCHANGED <<range_vars, manager_vars>>

\* The builder records a new edge only while fewer than MaxEdges exist.
EdgeRoom(u, v) ==
    u = v \/ is_adjacent(u, v) \/ Cardinality(DOMAIN m_adj_matrix) < MaxEdges

\* GraphBuilder::add_edge / Graph::add_edge(u, v): can_coalesce defaults to
\* false.
AddEdge(u, v) ==
    /\ phase = "build"
    /\ HasKey(m_nodes, u) /\ HasKey(m_nodes, v)
    /\ EdgeRoom(u, v)
    /\ LET g == add_edge(Graph, u, v, FALSE)
       IN /\ m_nodes' = g.nodes
          /\ m_adj_matrix' = g.adj
    /\ UNCHANGED <<m_containment_graph, phase, last>>
    /\ UNCHANGED <<range_vars, manager_vars>>

\* Graph::add_coalesceable_edge(u, v) is add_edge(u, v, true).
AddCoalesceableEdge(u, v) ==
    /\ phase = "build"
    /\ HasKey(m_nodes, u) /\ HasKey(m_nodes, v)
    /\ EdgeRoom(u, v)
    /\ LET g == add_edge(Graph, u, v, TRUE)
       IN /\ m_nodes' = g.nodes
          /\ m_adj_matrix' = g.adj
    /\ UNCHANGED <<m_containment_graph, phase, last>>
    /\ UNCHANGED <<range_vars, manager_vars>>

\* add_containment_edge without its u == v test.
add_containment_edge_Unguarded(cg, u, v) == cg \cup {<<u, v>>}

\* Graph::add_containment_edge on a containment set: (u, u) is dropped.
add_containment_edge(cg, u, v) ==
    IF u = v THEN cg ELSE cg \cup {ContainmentEdge(u, v)}

\* There is a chain of one or more containment edges of cg from a to b.
RECURSIVE Reaches(_, _, _, _)
Reaches(cg, a, b, fuel) ==
    \/ <<a, b>> \in cg
    \/ /\ fuel > 0
       /\ \E e \in cg : e[1] = a /\ Reaches(cg, e[2], b, fuel - 1)

Chain(cg, a, b) == Reaches(cg, a, b, Cardinality(cg))

\* There is a chain of two or more containment edges of cg from a to b.
LongChain(cg, a, b) ==
    \E e \in cg : e[1] = a /\ e[2] # b /\ Chain(cg, e[2], b)

Acyclic(cg) == \A e \in cg : ~Chain(cg, e[2], e[1]) /\ e[1] # e[2]

\* The builder records (u, v) when the range of u contains the range of v;
\* the ranges of the method nest, so v does not already contain u.
AddContainmentEdge(u, v) ==
    /\ phase = "build"
    /\ HasKey(m_nodes, u) /\ HasKey(m_nodes, v)
    /\ Cardinality(m_containment_graph) < MaxContain
    /\ u = v \/ ~Chain(m_containment_graph, v, u)
    /\ m_containment_graph' = add_containment_edge(m_containment_graph, u, v)
    /\ UNCHANGED <<m_nodes, m_adj_matrix, phase, last>>
    /\ UNCHANGED <<range_vars, manager_vars>>

\* GraphBuilder::build returns the graph; from here on the allocator owns it.
FinishBuild ==
    /\ phase = "build"
    /\ phase' = "alloc"
    /\ UNCHANGED <<m_nodes, m_adj_matrix, m_containment_graph, last>>
    /\ UNCHANGED <<range_vars, manager_vars>>

\* ---------------------------------------------------------- the allocator
\* Node r leaves the interference graph: ACTIVE is cleared, r is erased from
\* the m_adjacent of each of its neighbours and their weight loses r's
\* edge_weight. r's own record, its m_adjacent and the edge markers stay.
detach(nodes, r) ==
    [x \in DOMAIN nodes |->
        IF x = r THEN [nodes[x] EXCEPT !.active = FALSE]
        ELSE IF InSeq(nodes[r].m_adjacent, x)
        THEN [nodes[x] EXCEPT
                !.m_adjacent = Erase(@, r),
                !.m_weight = @ - edge_weight(nodes[x].m_width, nodes[r].m_width)]
        ELSE nodes[x]]

\* remove_node without its test of the ACTIVE flag.
remove_node_Unguarded(nodes, r) == detach(nodes, r)

\* Graph::remove_node(r): nothing happens to a node that is already inactive.
remove_node(nodes, r) ==
    IF nodes[r].active THEN detach(nodes, r) ELSE nodes

RemoveNode(r) ==
    /\ phase = "alloc"
    /\ HasKey(m_nodes, r)
    /\ m_nodes' = remove_node(m_nodes, r)
    /\ last' = [op |-> "remove_node", u |-> r, v |-> r,
                acted |-> m_nodes[r].active, self |-> FALSE]
    /\ UNCHANGED <<m_adj_matrix, m_containment_graph, phase>>
    /\ UNCHANGED <<range_vars, manager_vars>>

\* Graph::combine(u, v), the loop over v's neighbours from position i on:
\* each neighbour w of v other than u becomes a neighbour of u, once, and
\* the marker of u-w is ORed with the marker of v-w.
RECURSIVE give_neighbors(_, _, _, _)
give_neighbors(g, u, v, i) ==
    IF i > Len(g.nodes[v].m_adjacent) THEN g
    ELSE
      LET w == g.nodes[v].m_adjacent[i]
          hard == g.adj[Edge(v, w)]
      IN give_neighbors(IF w = u THEN g ELSE add_edge(g, u, w, ~hard), u, v, i + 1)

\* Graph::combine(u, v), the containment edges: each edge that mentions v is
\* erased and recorded again, through add_containment_edge, with u in v's
\* place.
Repoint(x, u, v) == IF x = v THEN u ELSE x

RECURSIVE repoint_edges(_, _, _, _)
repoint_edges(cg, todo, u, v) ==
    IF todo = {} THEN cg
    ELSE
      LET e == CHOOSE x \in todo : TRUE
      IN repoint_edges(
           add_containment_edge(cg \ {e}, Repoint(e[1], u, v), Repoint(e[2], u, v)),
           todo \ {e}, u, v)

combine_containment(cg, u, v) ==
    repoint_edges(cg, {e \in cg : e[1] = v \/ e[2] = v}, u, v)

\* Graph::combine(u, v): u gets v's neighbours, v leaves the graph, the
\* containment edges of v move to u.
combine(g, u, v) ==
    LET t == give_neighbors(g, u, v, 1)
    IN [nodes |-> detach(t.nodes, v), adj |-> t.adj]

\* The allocator calls combine on two distinct active nodes it has found
\* coalesceable.
Combine(u, v) ==
    /\ phase = "alloc"
    /\ u \in active_nodes /\ v \in active_nodes
    /\ u # v
    /\ is_coalesceable(u, v)
    /\ LET g == combine(Graph, u, v)
       IN /\ m_nodes' = g.nodes
          /\ m_adj_matrix' = g.adj
    /\ m_containment_graph' = combine_containment(m_containment_graph, u, v)
    /\ last' = [op |-> "combine", u |-> u, v |-> v, acted |-> TRUE,
                self |-> has_containment_edge(u, v) \/ has_containment_edge(v, u)]
    /\ UNCHANGED phase
    /\ UNCHANGED <<range_vars, manager_vars>>

\* A combine(u, v) on a pair that is not coalesceable which merges all the
\* same and returns.
CombineRejected_Merges(u, v) ==
    /\ phase = "alloc"
    /\ HasKey(m_nodes, u) /\ HasKey(m_nodes, v)
    /\ ~is_coalesceable(u, v)
    /\ LET g == combine(Graph, u, v)
       IN /\ m_nodes' = g.nodes
          /\ m_adj_matrix' = g.adj
    /\ m_containment_graph' = combine_containment(m_containment_graph, u, v)
    /\ last' = [op |-> "combine", u |-> u, v |-> v, acted |-> TRUE, self |-> FALSE]
    /\ UNCHANGED phase
    /\ UNCHANGED <<range_vars, manager_vars>>

\* Graph::combine(u, v) called on a pair that is not coalesceable: the call
\* fails fast, the process stops and the graph is as it was.
CombineRejected(u, v) ==
    /\ phase = "alloc"
    /\ HasKey(m_nodes, u) /\ HasKey(m_nodes, v)
    /\ ~is_coalesceable(u, v)
    /\ phase' = "aborted"
    /\ last' = [op |-> "combine", u |-> u, v |-> v, acted |-> FALSE, self |-> FALSE]
    /\ UNCHANGED <<m_nodes, m_adj_matrix, m_containment_graph>>
    /\ UNCHANGED <<range_vars, manager_vars>>

\* A call of Graph::combine(u, v), whether the pair is coalesceable or not.
CombineCall(u, v) == Combine(u, v) \/ CombineRejected(u, v)

\* ------------------------------------------------------ the specifications
\* The whole program.
Next ==
    \/ \E r \in Regs, w \in Widths, mv \in MaxVregs : MakeNode(r, w, mv)
    \/ \E u, v \in Regs : AddEdge(u, v)
    \/ \E u, v \in Regs : AddCoalesceableEdge(u, v)
    \/ \E u, v \in Regs : AddContainmentEdge(u, v)
    \/ FinishBuild
    \/ \E r \in Regs : RemoveNode(r)
    \/ \E u, v \in Regs : Combine(u, v)

Spec == Init /\ [][Next]_vars

\* The interference relation alone: no operation on m_nodes or m_adj_matrix
\* reads m_containment_graph, so the builds that record no containment edge
\* reach every value of the nodes and of the adjacency matrix.
NextInterference ==
    \/ \E r \in Regs, w \in Widths, mv \in MaxVregs : MakeNode(r, w, mv)
    \/ \E u, v \in Regs : AddEdge(u, v)
    \/ \E u, v \in Regs : AddCoalesceableEdge(u, v)
    \/ FinishBuild
    \/ \E r \in Regs : RemoveNode(r)
    \/ \E u, v \in Regs : Combine(u, v)

SpecInterference == Init /\ [][NextInterference]_vars

\* The interference relation over registers of width 1: the adjacency lists,
\* the edge markers and the ACTIVE flags do not depend on the widths, which
\* feed m_weight only.
NextAdjacency ==
    \/ \E r \in Regs, mv \in MaxVregs : MakeNode(r, 1, mv)
    \/ \E u, v \in Regs : AddEdge(u, v)
    \/ \E u, v \in Regs : AddCoalesceableEdge(u, v)
    \/ FinishBuild
    \/ \E r \in Regs : RemoveNode(r)
    \/ \E u, v \in Regs : Combine(u, v)

SpecAdjacency == Init /\ [][NextAdjacency]_vars

\* The allocator's calls with and without the precondition of combine.
NextPrecondition ==
    \/ \E r \in Regs, mv \in MaxVregs : MakeNode(r, 1, mv)
    \/ \E u, v \in Regs : AddEdge(u, v)
    \/ \E u, v \in Regs : AddCoalesceableEdge(u, v)
    \/ FinishBuild
    \/ \E r \in Regs : RemoveNode(r)
    \/ \E u, v \in Regs : Combine(u, v)
    \/ \E u, v \in Regs : CombineRejected(u, v)

SpecPrecondition == Init /\ [][NextPrecondition]_vars

\* The containment relation alone: only add_containment_edge and combine
\* write m_containment_graph, and with no interference edge every pair of
\* active nodes is coalesceable, so these builds reach every value of the
\* containment graph.
NextContainment ==
    \/ \E r \in Regs, w \in Widths, mv \in MaxVregs : MakeNode(r, w, mv)
    \/ \E u, v \in Regs : AddContainmentEdge(u, v)
    \/ FinishBuild
    \/ \E u, v \in Regs : Combine(u, v)

SpecContainment == Init /\ [][NextContainment]_vars

\* ------------------------------------------------------ GraphBuilder::build
\* add_coalesceable_edge that records a hard conflict.
add_coalesceable_edge_Hard(g, u, v) == add_edge(g, u, v, FALSE)

\* Graph::add_coalesceable_edge on a graph value.
add_coalesceable_edge(g, u, v) == add_edge(g, u, v, TRUE)

\* The edges one instruction gives rise to: its destination d against every
\* register of todo, taken in increasing order; the edge to the source of a
\* move is recorded as coalesceable.
RECURSIVE build_edges(_, _, _, _, _)
build_edges(g, d, todo, is_move, src) ==
    IF todo = {} THEN g
    ELSE
      LET r == CHOOSE x \in todo : \A y \in todo : x <= y
      IN build_edges(IF is_move /\ r = src
                     THEN add_coalesceable_edge(g, d, r)
                     ELSE add_edge(g, d, r, FALSE),
                     d, todo \ {r}, is_move, src)

\* GraphBuilder::build at one instruction that writes d, with live_out the
\* other registers live after it; is_move: the instruction is the move
\* d = src (src is d itself for an instruction that is no move).
BuildInsn(d, live_out, is_move, src) ==
    /\ phase = "build"
    /\ HasKey(m_nodes, d)
    /\ IF is_move THEN HasKey(m_nodes, src) /\ d # src ELSE src = d
    /\ \A r \in live_out : HasKey(m_nodes, r)
    /\ LET g == build_edges(Graph, d, live_out \ {d}, is_move, src)
       IN /\ Cardinality(DOMAIN g.adj) <= MaxBuildEdges
          /\ m_nodes' = g.nodes
          /\ m_adj_matrix' = g.adj
    /\ UNCHANGED <<m_containment_graph, phase, last>>
    /\ UNCHANGED <<range_vars, manager_vars>>

NextBuild ==
    \/ \E r \in Regs, mv \in MaxVregs : MakeNode(r, 1, mv)
    \/ \E d, src \in Regs, is_move \in BOOLEAN :
         \E live_out \in SUBSET (Regs \ {d}) :
           BuildInsn(d, live_out, is_move, src)
    \/ FinishBuild

SpecBuild == Init /\ [][NextBuild]_vars

\* ---------------------------------------------------------------- RangeSet
\* RangeSet::contains
contains(insn) == insn \in m_range_set

\* RangeSet::size
size == Len(m_range_vec)

\* The two containers of a RangeSet as a value.
RangeSet == [vec |-> m_range_vec, set |-> m_range_set]

\* emplace without its contains test.
emplace_Unchecked(rs, insn) ==
    [vec |-> Append(rs.vec, insn), set |-> rs.set \cup {insn}]

\* RangeSet::emplace: nothing happens when the instruction is contained.
emplace(rs, insn) ==
    IF insn \in rs.set THEN rs
    ELSE [vec |-> Append(rs.vec, insn), set |-> rs.set \cup {insn}]

Emplace(insn) ==
    /\ Len(emplaced) < MaxEmplace
    /\ LET rs == emplace(RangeSet, insn)
       IN /\ m_range_vec' = rs.vec
          /\ m_range_set' = rs.set
    /\ emplaced' = Append(emplaced, insn)
    /\ UNCHANGED <<graph_vars, manager_vars>>

NextRangeSet == \E insn \in Insns : Emplace(insn)

SpecRangeSet == Init /\ [][NextRangeSet]_vars

\* ------------------------------------------------------------- PassManager
\* Pass::name() of the passes that exist.
PassNames == {"A", "B"}

\* Keys of PassInfo::metrics; PASS_ORDER_KEY is written by run_passes.
PASS_ORDER_KEY == "pass_order"
MetricKeys == {PASS_ORDER_KEY, "k"}

SeqsUpTo(S, n) == UNION {[1 .. k -> S] : k \in 0 .. n}

\* What the ir_type_checker entry can say: absent (the settings then read as
\* false and empty), or present with run_after_each_pass and run_after_passes.
CheckerSettings ==
    {<<FALSE, FALSE, {}>>}
      \cup {<<TRUE, each, triggers>> : each \in BOOLEAN, triggers \in SUBSET PassNames}

\* redex.passes: absent, or a list of names.
PassesSettings ==
    {<<FALSE, <<>> >>}
      \cup {<<TRUE, names>> : names \in SeqsUpTo(PassNames, MaxConfigured)}

\* PassManager::PassManager up to the call of init(config), for one choice
\* of registered passes and config.
Construct(registered, passes, checker) ==
    /\ m_registered_passes = registered
    /\ m_config = Config(passes[1], passes[2], checker[1], checker[2], checker[3])
    /\ m_activated_passes = <<>>
    /\ configured = <<>>
    /\ m_pass_info = <<>>
    /\ m_current_pass_info = 0
    /\ pc = "init"
    /\ idx = 1
    /\ calls = <<>>
    /\ outcome = "none"
    /\ metric_calls = 0

\* No graph and no RangeSet is at work.
NoGraph ==
    /\ m_nodes = EmptyMap
    /\ m_adj_matrix = EmptyMap
    /\ m_containment_graph = {}
    /\ phase = "none"
    /\ last = NoOp
    /\ RangeSetInit

\* The registered passes called name, by position.
Named(name) ==
    {k \in 1 .. Len(m_registered_passes) : m_registered_passes[k] = name}

\* The loop of activate_pass picking the last pass called name.
found_pass_Last(name) == CHOOSE k \in Named(name) : \A j \in Named(name) : j <= k

\* The loop of activate_pass: the first registered pass called name.
found_pass(name) == CHOOSE k \in Named(name) : \A j \in Named(name) : k <= j

\* PassManager::init when the config has no redex.passes: all registered
\* passes are activated, none is configured.
InitAllRegistered ==
    /\ pc = "init"
    /\ ~m_config.has_passes
    /\ m_activated_passes' = [k \in 1 .. Len(m_registered_passes) |-> k]
    /\ pc' = "idle"
    /\ idx' = 0
    /\ UNCHANGED <<m_registered_passes, m_config, configured, m_pass_info,
                   m_current_pass_info, calls, outcome, metric_calls>>
    /\ UNCHANGED <<graph_vars, range_vars>>

\* One turn of the loop of PassManager::init: activate_pass on the next
\* configured name, which asserts when no registered pass has that name.
ActivatePass ==
    /\ pc = "init"
    /\ m_config.has_passes
    /\ idx <= Len(m_config.passes)
    /\ IF Named(m_config.passes[idx]) # {}
       THEN /\ m_activated_passes' =
                 Append(m_activated_passes, found_pass(m_config.passes[idx]))
            /\ configured' = Append(configured, found_pass(m_config.passes[idx]))
            /\ idx' = idx + 1
            /\ UNCHANGED <<pc, outcome>>
       ELSE /\ pc' = "assert"
            /\ outcome' = "No pass named"
            /\ UNCHANGED <<m_activated_passes, configured, idx>>
    /\ UNCHANGED <<m_registered_passes, m_config, m_pass_info,
                   m_current_pass_info, calls, metric_calls>>
    /\ UNCHANGED <<graph_vars, range_vars>>

\* The loop of PassManager::init is over and the constructor returns.
InitReturn ==
    /\ pc = "init"
    /\ m_config.has_passes
    /\ idx > Len(m_config.passes)
    /\ pc' = "idle"
    /\ idx' = 0
    /\ UNCHANGED <<m_registered_passes, m_config, m_activated_passes, configured,
                   m_pass_info, m_current_pass_info, calls, outcome, metric_calls>>
    /\ UNCHANGED <<graph_vars, range_vars>>

\* A PassInfo as m_pass_info.resize makes it.
EmptyPassInfo ==
    [pass |-> 0, order |-> 0, repeat |-> 0, total_repeat |-> 0,
     name |-> <<"", 0>>, metrics |-> EmptyMap]

\* pass_counters[pass] when the eval loop reaches position k: the earlier
\* activations of the same pass.
pass_counter(k) ==
    Cardinality({j \in 1 .. k - 1 : m_activated_passes[j] = m_activated_passes[k]})

\* pass_repeats.at(pass)
pass_repeats(k) ==
    Cardinality({j \in 1 .. Len(m_activated_passes) :
                   m_activated_passes[j] = m_activated_passes[k]})

\* PassManager::run_passes up to the eval loop.
RunPasses ==
    /\ pc = "idle"
    /\ m_pass_info' = [k \in 1 .. Len(m_activated_passes) |-> EmptyPassInfo]
    /\ idx' = 1
    /\ pc' = "eval"
    /\ UNCHANGED <<m_registered_passes, m_config, m_activated_passes, configured,
                   m_current_pass_info, calls, outcome, metric_calls>>
    /\ UNCHANGED <<graph_vars, range_vars>>

\* The eval loop enters eval_pass of activation idx (order is idx - 1).
EvalPass ==
    /\ pc = "eval"
    /\ idx <= Len(m_activated_passes)
    /\ m_pass_info' =
         [m_pass_info EXCEPT ![idx] =
            [pass |-> m_activated_passes[idx],
             order |-> idx - 1,
             repeat |-> pass_counter(idx),
             total_repeat |-> pass_repeats(idx),
             name |-> <<m_registered_passes[m_activated_passes[idx]],
                        pass_counter(idx) + 1>>,
             metrics |-> MapSet(@.metrics, PASS_ORDER_KEY, idx - 1)]]
    /\ m_current_pass_info' = idx
    /\ calls' = Append(calls, [call |-> "eval_pass", at |-> idx,
                               pass |-> m_activated_passes[idx]])
    /\ pc' = "in_eval"
    /\ UNCHANGED <<m_registered_passes, m_config, m_activated_passes, configured,
                   idx, outcome, metric_calls>>
    /\ UNCHANGED <<graph_vars, range_vars>>

\* An eval_pass that leaves the current pass set when it returns.
EvalReturn_KeepsCurrent ==
    /\ pc = "in_eval"
    /\ idx' = idx + 1
    /\ pc' = "eval"
    /\ UNCHANGED <<m_registered_passes, m_config, m_activated_passes, configured,
                   m_pass_info, m_current_pass_info, calls, outcome, metric_calls>>
    /\ UNCHANGED <<graph_vars, range_vars>>

\* eval_pass returns: the current pass is reset and the loop goes on.
EvalReturn ==
    /\ pc = "in_eval"
    /\ m_current_pass_info' = 0
    /\ idx' = idx + 1
    /\ pc' = "eval"
    /\ UNCHANGED <<m_registered_passes, m_config, m_activated_passes, configured,
                   m_pass_info, calls, outcome, metric_calls>>
    /\ UNCHANGED <<graph_vars, range_vars>>

\* The eval loop is over; the type checker's settings are read.
EvalDone ==
    /\ pc = "eval"
    /\ idx > Len(m_activated_passes)
    /\ idx' = 1
    /\ pc' = "run"
    /\ UNCHANGED <<m_registered_passes, m_config, m_activated_passes, configured,
                   m_pass_info, m_current_pass_info, calls, outcome, metric_calls>>
    /\ UNCHANGED <<graph_vars, range_vars>>

\* The test after run_pass that looks at run_after_each_pass only.
check_after_EachOnly(k) ==
    m_config.has_checker /\ m_config.run_after_each_pass

\* type_checker_enabled && (run_after_each_pass ||
\* trigger_passes.count(pass->name()) > 0), for activation k.
check_after(k) ==
    /\ m_config.has_checker
    /\ \/ m_config.run_after_each_pass
       \/ m_registered_passes[m_activated_passes[k]] \in m_config.run_after_passes

\* A run loop that takes its passes from m_registered_passes.
RunPass_Registered ==
    /\ pc = "run"
    /\ idx <= Len(m_activated_passes)
    /\ m_current_pass_info' = idx
    /\ calls' = Append(calls, [call |-> "run_pass", at |-> idx,
                               pass |-> IF idx <= Len(m_registered_passes)
                                        THEN idx ELSE 1])
    /\ pc' = "in_run"
    /\ UNCHANGED <<m_registered_passes, m_config, m_activated_passes, configured,
                   m_pass_info, idx, outcome, metric_calls>>
    /\ UNCHANGED <<graph_vars, range_vars>>

\* The run loop enters run_pass of activation idx.
RunPass ==
    /\ pc = "run"
    /\ idx <= Len(m_activated_passes)
    /\ m_current_pass_info' = idx
    /\ calls' = Append(calls, [call |-> "run_pass", at |-> idx,
                               pass |-> m_activated_passes[idx]])
    /\ pc' = "in_run"
    /\ UNCHANGED <<m_registered_passes, m_config, m_activated_passes, configured,
                   m_pass_info, idx, outcome, metric_calls>>
    /\ UNCHANGED <<graph_vars, range_vars>>

\* run_pass returns: either the type checker is due, or the current pass is
\* reset and the loop goes on.
RunReturn ==
    /\ pc = "in_run"
    /\ IF check_after(idx)
       THEN /\ pc' = "post_check"
            /\ UNCHANGED <<m_current_pass_info, idx>>
       ELSE /\ m_current_pass_info' = 0
            /\ idx' = idx + 1
            /\ pc' = "run"
    /\ UNCHANGED <<m_registered_passes, m_config, m_activated_passes, configured,
                   m_pass_info, calls, outcome, metric_calls>>
    /\ UNCHANGED <<graph_vars, range_vars>>

\* run_type_checker after run_pass of activation idx: when a method fails
\* the check the process exits, otherwise the loop goes on.
PostCheck(passed) ==
    /\ pc = "post_check"
    /\ calls' = Append(calls, [call |-> "type_checker", at |-> idx, pass |-> 0])
    /\ IF passed
       THEN /\ m_current_pass_info' = 0
            /\ idx' = idx + 1
            /\ pc' = "run"
       ELSE /\ pc' = "exit"
            /\ UNCHANGED <<m_current_pass_info, idx>>
    /\ UNCHANGED <<m_registered_passes, m_config, m_activated_passes, configured,
                   m_pass_info, outcome, metric_calls>>
    /\ UNCHANGED <<graph_vars, range_vars>>

\* The run loop is over.
RunDone ==
    /\ pc = "run"
    /\ idx > Len(m_activated_passes)
    /\ pc' = IF m_config.has_checker THEN "final_check" ELSE "done"
    /\ idx' = 0
    /\ UNCHANGED <<m_registered_passes, m_config, m_activated_passes, configured,
                   m_pass_info, m_current_pass_info, calls, outcome, metric_calls>>
    /\ UNCHANGED <<graph_vars, range_vars>>

\* run_type_checker before run_passes returns.
FinalCheck(passed) ==
    /\ pc = "final_check"
    /\ calls' = Append(calls, [call |-> "type_checker", at |-> 0, pass |-> 0])
    /\ pc' = IF passed THEN "done" ELSE "exit"
    /\ UNCHANGED <<m_registered_passes, m_config, m_activated_passes, configured,
                   m_pass_info, m_current_pass_info, idx, outcome, metric_calls>>
    /\ UNCHANGED <<graph_vars, range_vars>>

\* Where a metric accessor can be called: by the code that owns the manager
\* before and after run_passes, and by a pass from eval_pass or run_pass.
MetricCallSite ==
    /\ pc \in {"idle", "in_eval", "in_run", "done"}
    /\ metric_calls < MaxMetricCalls

\* metrics[key] of std::unordered_map: a missing key is inserted with 0.
metric_value(metrics, key) == IF HasKey(metrics, key) THEN metrics[key] ELSE 0

\* PassManager::incr_metric
IncrMetric(key, value) ==
    /\ MetricCallSite
    /\ metric_calls' = metric_calls + 1
    /\ IF m_current_pass_info # 0
       THEN /\ m_pass_info' =
                 [m_pass_info EXCEPT ![m_current_pass_info].metrics =
                    MapSet(@, key, metric_value(@, key) + value)]
            /\ outcome' = "ok"
            /\ UNCHANGED pc
       ELSE /\ pc' = "assert"
            /\ outcome' = "No current pass!"
            /\ UNCHANGED m_pass_info
    /\ UNCHANGED <<m_registered_passes, m_config, m_activated_passes, configured,
                   m_current_pass_info, idx, calls>>
    /\ UNCHANGED <<graph_vars, range_vars>>

\* PassManager::set_metric
SetMetric(key, value) ==
    /\ MetricCallSite
    /\ metric_calls' = metric_calls + 1
    /\ IF m_current_pass_info # 0
       THEN /\ m_pass_info' =
                 [m_pass_info EXCEPT ![m_current_pass_info].metrics =
                    MapSet(@, key, value)]
            /\ outcome' = "ok"
            /\ UNCHANGED pc
       ELSE /\ pc' = "assert"
            /\ outcome' = "No current pass!"
            /\ UNCHANGED m_pass_info
    /\ UNCHANGED <<m_registered_passes, m_config, m_activated_passes, configured,
                   m_current_pass_info, idx, calls>>
    /\ UNCHANGED <<graph_vars, range_vars>>

\* What a dereference of the null m_current_pass_info can come to: the
\* process is killed, or the call returns whatever it read.
NullDereference == {"segfault", "returned"}

\* PassManager::get_metric: no assertion guards m_current_pass_info->metrics.
GetMetric(key) ==
    /\ MetricCallSite
    /\ metric_calls' = metric_calls + 1
    /\ IF m_current_pass_info # 0
       THEN /\ m_pass_info' =
                 [m_pass_info EXCEPT ![m_current_pass_info].metrics =
                    MapSet(@, key, metric_value(@, key))]
            /\ outcome' = "ok"
            /\ UNCHANGED pc
       ELSE /\ \E o \in NullDereference :
                 /\ outcome' = o
                 /\ pc' = IF o = "segfault" THEN "killed" ELSE pc
            /\ UNCHANGED m_pass_info
    /\ UNCHANGED <<m_registered_passes, m_config, m_activated_passes, configured,
                   m_current_pass_info, idx, calls>>
    /\ UNCHANGED <<graph_vars, range_vars>>

\* A PassManager is constructed with some registered passes and some config.
InitRunPasses ==
    /\ NoGraph
    /\ \E registered \in SeqsUpTo(PassNames, MaxRegistered),
          passes \in PassesSettings, checker \in CheckerSettings :
         Construct(registered, passes, checker)

\* Construction and run_passes.
NextRunPasses ==
    \/ InitAllRegistered
    \/ ActivatePass
    \/ InitReturn
    \/ RunPasses
    \/ EvalPass
    \/ EvalReturn
    \/ EvalDone
    \/ RunPass
    \/ RunReturn
    \/ \E passed \in BOOLEAN : PostCheck(passed)
    \/ RunDone
    \/ \E passed \in BOOLEAN : FinalCheck(passed)

SpecRunPasses == InitRunPasses /\ [][NextRunPasses]_vars

\* The settings of the type checker used with the metric calls: no entry,
\* or a check after each pass.
MetricsCheckerSettings == {<<FALSE, FALSE, {}>>, <<TRUE, TRUE, {}>>}

InitMetrics ==
    /\ NoGraph
    /\ \E registered \in SeqsUpTo(PassNames, MaxRegistered),
          passes \in PassesSettings, checker \in MetricsCheckerSettings :
         Construct(registered, passes, checker)

\* Construction and run_passes, with metric calls by the passes and by the
\* owner of the manager.
NextMetrics ==
    \/ NextRunPasses
    \/ \E key \in MetricKeys : IncrMetric(key, 1)
    \/ \E key \in MetricKeys : SetMetric(key, 1)
    \/ \E key \in MetricKeys : GetMetric(key)

SpecMetrics == InitMetrics /\ [][NextMetrics]_vars

\* ------------------------------------------------------------- the claims
node_ids == {r \in Regs : HasKey(m_nodes, r)}

\* C1: is_adjacent and is_coalesceable give the same answer for (u, v) and
\* (v, u), and every key of the adjacency matrix is in the canonical
\* (min, max) form, so an unordered pair has at most one key and one marker.
C1_EdgeSymmetry ==
    /\ \A u, v \in Regs :
         /\ is_adjacent(u, v) = is_adjacent(v, u)
         /\ is_coalesceable(u, v) = is_coalesceable(v, u)
    /\ \A e \in DOMAIN m_adj_matrix : e[1] <= e[2]
    /\ \A e, f \in DOMAIN m_adj_matrix :
         {e[1], e[2]} = {f[1], f[2]} => e = f

\* A combine has given u an edge to a neighbour w of v with a smaller id
\* than u, and it is seen from both sides.
C1_Witness ==
    /\ last.op = "combine"
    /\ \E w \in node_ids :
         /\ w < last.u
         /\ InSeq(adjacent(last.v), w)
         /\ is_adjacent(last.u, w) /\ is_adjacent(w, last.u)
         /\ ~is_coalesceable(w, last.u)

\* C2 as stated: after combine(u, v), for every third node w, u-w is
\* non-coalesceable if u-w or v-w was non-coalesceable before.
C2_Original ==
    [][\A u, v \in Regs : Combine(u, v) =>
         \A w \in node_ids \ {u, v} :
           (~is_coalesceable(u, w) \/ ~is_coalesceable(v, w))
             => ~(is_coalesceable(u, w))']_vars

\* C2 amended: the OR covers the third nodes w that are on v's adjacent()
\* list when combine(u, v) runs (and those already in conflict with u); no
\* combine turns a non-coalesceable edge into a coalesceable one.
C2_ConflictsKept ==
    [][\A u, v \in Regs : Combine(u, v) =>
         /\ \A w \in node_ids \ {u, v} :
              (~is_coalesceable(u, w)
                 \/ (InSeq(adjacent(v), w) /\ ~is_coalesceable(v, w)))
                => ~(is_coalesceable(u, w))'
         /\ \A a, b \in node_ids :
              ~is_coalesceable(a, b) => ~(is_coalesceable(a, b))']_vars

\* combine(u, v) has handed a hard conflict of v with its neighbour w to u.
C2_Witness ==
    /\ last.op = "combine"
    /\ \E w \in node_ids \ {last.u, last.v} :
         /\ InSeq(adjacent(last.v), w)
         /\ ~is_coalesceable(last.v, w)
         /\ ~is_coalesceable(last.u, w)

\* r is out of the graph: not among active_nodes(), and on no active node's
\* adjacent() list.
Gone(r) ==
    /\ r \in node_ids
    /\ r \notin active_nodes
    /\ \A x \in active_nodes : ~InSeq(adjacent(x), r)

\* C3: remove_node(r) leaves r out of the graph, and a node that is out of
\* the graph stays out under every later step: no combine involves it, and
\* every remove_node and combine on other nodes leaves it out.
C3_RemovalMonotone ==
    [][\A r \in Regs :
         /\ RemoveNode(r) => Gone(r)'
         /\ Gone(r) => /\ \A x \in Regs : ~Combine(r, x) /\ ~Combine(x, r)
                       /\ Gone(r)']_vars

\* remove_node has just taken out a node that had neighbours.
C3_Witness ==
    /\ last.op = "remove_node" /\ last.acted
    /\ Len(adjacent(last.u)) > 0
    /\ \E x \in active_nodes : is_adjacent(x, last.u)
    /\ Gone(last.u)

\* C4: combine(u, v) makes every w # u on v's adjacent() list adjacent to u,
\* once; v becomes inactive, u stays active, no other ACTIVE flag changes
\* and there is one active node fewer.
C4_CombineGivesNeighbors ==
    [][\A u, v \in Regs : Combine(u, v) =>
         /\ \A w \in node_ids \ {u} :
              (InSeq(adjacent(v), w) /\ is_adjacent(v, w)) =>
                /\ (is_adjacent(u, w))'
                /\ (Occurrences(adjacent(u), w))' = 1
         /\ ~m_nodes'[v].active
         /\ m_nodes'[u].active
         /\ \A x \in node_ids \ {v} : m_nodes'[x].active = m_nodes[x].active
         /\ Cardinality(active_nodes') = Cardinality(active_nodes) - 1]_vars

\* combine(u, v) has run where v had a neighbour other than u, which u now
\* lists once.
C4_Witness ==
    /\ last.op = "combine"
    /\ \E w \in node_ids \ {last.u} :
         /\ InSeq(adjacent(last.v), w)
         /\ Occurrences(adjacent(last.u), w) = 1
         /\ is_adjacent(last.u, w)
    /\ last.u \in active_nodes /\ last.v \notin active_nodes

\* C5: a node is ACTIVE when it is created, and an inactive node is never
\* active again.
C5_ActiveOnlyCleared ==
    [][/\ \A r \in Regs :
            (~HasKey(m_nodes, r) /\ HasKey(m_nodes', r)) => m_nodes'[r].active
       /\ \A r \in node_ids :
            ~m_nodes[r].active => ~m_nodes'[r].active]_vars

\* Two nodes are inactive, one after a remove_node and one after a combine.
C5_Witness ==
    /\ last.op = "combine"
    /\ \E r \in node_ids \ {last.u, last.v} : ~m_nodes[r].active
    /\ ~m_nodes[last.v].active

\* The sum of edge_weight over the active members of r's adjacent() list,
\* from position i on.
RECURSIVE weight_of(_, _)
weight_of(r, i) ==
    IF i > Len(adjacent(r)) THEN 0
    ELSE
      LET x == adjacent(r)[i]
      IN (IF m_nodes[x].active
          THEN edge_weight(m_nodes[r].m_width, m_nodes[x].m_width)
          ELSE 0) + weight_of(r, i + 1)

\* C7: the weight of every active node is the sum of edge_weight over its
\* current active neighbours, so definitely_colorable() is true iff that sum
\* is below colorable_limit().
C7_WeightTracksAdjacency ==
    \A r \in active_nodes :
      /\ m_nodes[r].m_weight = weight_of(r, 1)
      /\ definitely_colorable(m_nodes[r])
           <=> weight_of(r, 1) < colorable_limit(m_nodes[r])

\* remove_node has taken a neighbour away from an active node that still
\* has one, and the node is definitely colorable with what is left.
C7_Witness ==
    /\ last.op = "remove_node" /\ last.acted
    /\ \E n \in active_nodes :
         /\ is_adjacent(n, last.u)
         /\ m_nodes[n].m_weight > 0
         /\ definitely_colorable(m_nodes[n])

\* C8: remove_node(r) on an inactive node changes nothing, a second
\* remove_node(r) changes nothing after the first, and remove_node keeps
\* every record of the node table.
C8_RemoveIdempotent ==
    [][\A r \in Regs : RemoveNode(r) =>
         /\ DOMAIN m_nodes' = DOMAIN m_nodes
         /\ HasKey(m_nodes', r)
         /\ ~m_nodes[r].active =>
              UNCHANGED <<m_nodes, m_adj_matrix, m_containment_graph>>
         /\ remove_node(m_nodes', r) = m_nodes']_vars

\* remove_node has been called on a node that was already inactive and had
\* neighbours.
C8_Witness ==
    /\ last.op = "remove_node" /\ ~last.acted
    /\ Len(adjacent(last.u)) > 0
    /\ ~m_nodes[last.u].active

\* C9: the containment relation holds no self-edge; add_containment_edge(u, u)
\* changes nothing; after combine(u, v) no containment edge mentions v, and
\* u contains (is contained in) every w # u that v contained (was contained
\* in).
C9_NoContainmentSelfEdge ==
    [][/\ \A e \in m_containment_graph' : e[1] # e[2]
       /\ \A u \in Regs :
            AddContainmentEdge(u, u) => UNCHANGED m_containment_graph
       /\ \A u, v \in Regs : Combine(u, v) =>
            /\ \A e \in m_containment_graph' : e[1] # v /\ e[2] # v
            /\ \A w \in node_ids \ {u} :
                 /\ has_containment_edge(v, w) => (has_containment_edge(u, w))'
                 /\ has_containment_edge(w, v) => (has_containment_edge(w, u))'
      ]_vars

\* combine(u, v) has run where a containment edge joined u and v, and u has
\* a containment edge to or from a third node.
C9_Witness ==
    /\ last.op = "combine" /\ last.self
    /\ \E w \in node_ids \ {last.u, last.v} :
         has_containment_edge(last.u, w) \/ has_containment_edge(w, last.u)

\* C10 as stated: after build and after any sequence of combine operations
\* the containment relation has no cycle.
C10_Original == Acyclic(m_containment_graph)

\* C10 amended: add_containment_edge(u, v) with u # v records the edge u -> v;
\* combine(u, v) on an acyclic containment relation leaves it acyclic exactly
\* when no chain of two or more containment edges leads from u to v or from
\* v to u.
C10_AcyclicUnlessChained ==
    [][/\ \A u, v \in Regs :
            (AddContainmentEdge(u, v) /\ u # v) =>
              /\ (has_containment_edge(u, v))'
              /\ Acyclic(m_containment_graph) => (Acyclic(m_containment_graph))'
       /\ \A u, v \in Regs :
            (Combine(u, v) /\ Acyclic(m_containment_graph)) =>
              ((Acyclic(m_containment_graph))' <=>
                 (/\ ~LongChain(m_containment_graph, u, v)
                  /\ ~LongChain(m_containment_graph, v, u)))]_vars

\* combine has merged two nodes that a containment edge joined directly and
\* the relation, which holds other edges, is still acyclic.
C10_Witness ==
    /\ last.op = "combine" /\ last.self
    /\ m_containment_graph # {}
    /\ Acyclic(m_containment_graph)

\* Register ids a query can be made with: those of the nodes, and one more
\* that never has a node.
QueryIds == 0 .. MaxReg + 1

\* C11: for every pair of register ids, with or without a node,
\* is_coalesceable(u, v) returns without a lookup error; it returns true
\* exactly when the matrix has no edge for the pair or the stored marker
\* says coalesceable, and false exactly when the stored marker says not
\* coalesceable.
C11_CoalesceableTotal ==
    \A u, v \in QueryIds :
      LET c == is_coalesceable_call(u, v)
          stored == \E e \in DOMAIN m_adj_matrix : e = Edge(u, v)
      IN /\ c.ok
         /\ c.val <=> (~stored \/ ~m_adj_matrix[Edge(u, v)])
         /\ ~c.val <=> (stored /\ m_adj_matrix[Edge(u, v)])
         /\ c.val = is_coalesceable(u, v)

\* The allocator is at work on a graph that has a non-coalesceable edge, a
\* coalesceable edge and a pair of nodes with no edge.
C11_Witness ==
    /\ phase = "alloc"
    /\ \E u, v \in node_ids : is_adjacent(u, v) /\ ~is_coalesceable_call(u, v).val
    /\ \E u, v \in node_ids : is_adjacent(u, v) /\ is_coalesceable_call(u, v).val
    /\ \E u, v \in node_ids : u # v /\ ~is_adjacent(u, v) /\ is_coalesceable_call(u, v).val

\* C12: a call of combine(u, v) while is_coalesceable(u, v) is false stops
\* the process: it does not return, v is not made inactive, u gets none of
\* v's neighbours, and nothing runs on the graph afterwards.
C12_CombineFailsFast ==
    [][/\ \A u, v \in Regs :
            (CombineCall(u, v) /\ ~is_coalesceable(u, v)) =>
              /\ phase' = "aborted"
              /\ UNCHANGED <<m_nodes, m_adj_matrix, m_containment_graph>>
       /\ phase = "aborted" => UNCHANGED vars]_vars

\* combine has been called on two active nodes joined by a non-coalesceable
\* edge, and both are still active.
C12_Witness ==
    /\ phase = "aborted"
    /\ last.op = "combine" /\ ~last.acted
    /\ ~is_coalesceable(last.u, last.v)
    /\ last.u \in active_nodes /\ last.v \in active_nodes
    /\ Len(adjacent(last.v)) > 1

\* The distinct members of a sequence of calls, in order of first occurrence.
RECURSIVE first_insertions(_, _)
first_insertions(s, n) ==
    IF n = 0 THEN <<>>
    ELSE
      LET before == first_insertions(s, n - 1)
      IN IF InSeq(before, s[n]) THEN before ELSE Append(before, s[n])

\* C13: iteration yields every distinct emplaced instruction once, in order
\* of first insertion; the vector and the lookup set hold the same elements,
\* size() is the number of distinct instructions and contains(i) holds iff
\* i is iterated; an emplace of a contained instruction changes neither
\* container.
C13_RangeSetOrder ==
    [][/\ (m_range_vec = first_insertions(emplaced, Len(emplaced)))'
       /\ ({m_range_vec[k] : k \in 1 .. Len(m_range_vec)} = m_range_set)'
       /\ (\A insn \in Insns : Occurrences(m_range_vec, insn) <= 1)'
       /\ (size = Cardinality({emplaced[k] : k \in 1 .. Len(emplaced)}))'
       /\ (\A insn \in Insns : contains(insn) <=> InSeq(m_range_vec, insn))'
       /\ \A insn \in Insns :
            (Emplace(insn) /\ contains(insn)) =>
              UNCHANGED <<m_range_vec, m_range_set>>]_vars

\* An instruction has been emplaced a second time after another one, and
\* the iteration order is not the order of the instruction ids.
C13_Witness ==
    /\ Len(emplaced) > Len(m_range_vec)
    /\ Len(m_range_vec) >= 2
    /\ m_range_vec[1] > m_range_vec[2]
    /\ emplaced[Len(emplaced)] = m_range_vec[1]

\* is_coalesceable on a graph value.
coalesceable_in(g, u, v) ==
    IF HasKey(g.adj, Edge(u, v)) THEN ~g.adj[Edge(u, v)] ELSE TRUE

evals == SelectSeq(calls, LAMBDA c : c.call = "eval_pass")
runs == SelectSeq(calls, LAMBDA c : c.call = "run_pass")

\* The number of times pass p occurs in a sequence of passes, or of calls.
activations_of(p) ==
    Cardinality({k \in 1 .. Len(m_activated_passes) : m_activated_passes[k] = p})
calls_of(s, p) == Cardinality({k \in 1 .. Len(s) : s[k].pass = p})

\* C16: the k-th eval_pass call and the k-th run_pass call are on the k-th
\* activated pass; every eval_pass call comes before every run_pass call and
\* no run_pass is called before all activations are evaluated; when
\* run_passes has returned every activation was evaluated once and run once,
\* so a pass activated k times was evaluated k times and run k times.
C16_EvalThenRun ==
    LET n == Len(m_activated_passes)
    IN /\ Len(evals) <= n /\ Len(runs) <= n
       /\ \A k \in 1 .. Len(evals) :
            evals[k].at = k /\ evals[k].pass = m_activated_passes[k]
       /\ \A k \in 1 .. Len(runs) :
            runs[k].at = k /\ runs[k].pass = m_activated_passes[k]
       /\ \A j, k \in 1 .. Len(calls) :
            (calls[j].call = "run_pass" /\ calls[k].call = "eval_pass") => k < j
       /\ Len(runs) > 0 => Len(evals) = n
       /\ pc = "done" =>
            /\ Len(evals) = n /\ Len(runs) = n
            /\ \A p \in 1 .. Len(m_registered_passes) :
                 /\ calls_of(evals, p) = activations_of(p)
                 /\ calls_of(runs, p) = activations_of(p)

\* run_passes has returned after it evaluated and ran, in the configured
\* order, a pass that is activated twice and another one before it.
C16_Witness ==
    /\ pc = "done"
    /\ Len(m_activated_passes) = 2
    /\ m_activated_passes[1] > m_activated_passes[2]
    /\ Len(evals) = 2 /\ Len(runs) = 2
    /\ runs[1].pass = m_activated_passes[1]

\* Where the current-pass pointer must stand at each position of the
\* manager's code: at activation idx inside its eval_pass, its run_pass and
\* the type check after it, null everywhere else outside a failed process.
current_pass_as_claimed ==
    /\ pc \in {"in_eval", "in_run", "post_check"} =>
         /\ idx \in 1 .. Len(m_pass_info)
         /\ m_current_pass_info = idx
         /\ calls[Len(calls)].at = idx
         /\ calls[Len(calls)].call = IF pc = "in_eval" THEN "eval_pass" ELSE "run_pass"
    /\ pc \in {"init", "idle", "eval", "run", "final_check", "done"} =>
         m_current_pass_info = 0

\* The entries of m_pass_info other than entry k, and entry k without its
\* metrics, are the same before and after the step.
only_metrics_change(k) ==
    /\ Len(m_pass_info') = Len(m_pass_info)
    /\ \A j \in 1 .. Len(m_pass_info) :
         IF j = k
         THEN m_pass_info'[j] = [m_pass_info[j] EXCEPT !.metrics = m_pass_info'[j].metrics]
         ELSE m_pass_info'[j] = m_pass_info[j]

\* C17: the current-pass pointer refers to the PassInfo of activation i exactly
\* while that activation's eval_pass, run_pass or post-pass type check runs and
\* is null before, between and after them; incr_metric and set_metric with a
\* null pointer fail with 'No current pass!' and change no metrics, and with
\* the pointer at activation i they change the metrics of activation i only.
C17_CurrentPass ==
    [][/\ current_pass_as_claimed
       /\ current_pass_as_claimed'
       /\ \A key \in MetricKeys :
            (IncrMetric(key, 1) \/ SetMetric(key, 1)) =>
              IF m_current_pass_info = 0
              THEN /\ outcome' = "No current pass!"
                   /\ pc' = "assert"
                   /\ m_pass_info' = m_pass_info
              ELSE /\ outcome' = "ok"
                   /\ only_metrics_change(m_current_pass_info)
                   /\ HasKey(m_pass_info'[m_current_pass_info].metrics, key)]_vars

\* A pass activated twice is running its second activation, and a metric it
\* set there is in the second PassInfo and not in the first.
C17_Witness ==
    /\ pc = "in_run"
    /\ idx = 2
    /\ m_activated_passes[1] = m_activated_passes[2]
    /\ outcome = "ok"
    /\ HasKey(m_pass_info[2].metrics, "k")
    /\ ~HasKey(m_pass_info[1].metrics, "k")

\* The type checker is due after the run_pass recorded in c: there is an
\* ir_type_checker entry, and it has run_after_each_pass set or lists the
\* name of the pass.
check_due(c) ==
    /\ m_config.has_checker
    /\ \/ m_config.run_after_each_pass
       \/ m_registered_passes[c.pass] \in m_config.run_after_passes

\* The type checker runs as claimed in the calls made so far.
checks_as_claimed ==
    LET n == Len(calls)
    IN /\ \A j \in 1 .. n :
            calls[j].call = "type_checker" =>
              /\ m_config.has_checker
              /\ Len(evals) = Len(m_activated_passes)
              /\ \A k \in j .. n : calls[k].call # "eval_pass"
              /\ IF calls[j].at = 0
                 THEN /\ j = n
                      /\ Len(runs) = Len(m_activated_passes)
                      /\ pc \in {"done", "exit"}
                 ELSE /\ j > 1
                      /\ calls[j - 1].call = "run_pass"
                      /\ calls[j - 1].at = calls[j].at
                      /\ check_due(calls[j - 1])
       /\ \A j \in 1 .. n :
            calls[j].call = "run_pass" =>
              IF check_due(calls[j])
              THEN IF j = n
                   THEN pc \in {"in_run", "post_check"}
                   ELSE calls[j + 1] = [call |-> "type_checker", at |-> calls[j].at, pass |-> 0]
              ELSE j < n => (calls[j + 1].call # "type_checker" \/ calls[j + 1].at = 0)
       /\ pc = "done" /\ m_config.has_checker =>
            /\ n > 0
            /\ calls[n] = [call |-> "type_checker", at |-> 0, pass |-> 0]
       /\ pc = "exit" => n > 0 /\ calls[n].call = "type_checker"
       /\ pc \in {"done", "exit"} /\ ~m_config.has_checker =>
            /\ pc = "done"
            /\ \A j \in 1 .. n : calls[j].call # "type_checker"

\* C18: with an ir_type_checker entry the type checker runs right after a
\* pass's run_pass exactly when run_after_each_pass is set or the pass's name
\* is in run_after_passes, and once more after the last pass, also when no
\* pass is activated; it never runs during the eval phase and never when
\* there is no entry; after a failed check the process has exited and takes
\* no further step, so no later pass is run.
C18_TypeChecker ==
    [][pc # "exit" /\ checks_as_claimed /\ checks_as_claimed']_vars

\* run_passes has returned after two passes, the type checker ran after the
\* one named in run_after_passes, not after the other, and once at the end.
C18_Witness ==
    /\ pc = "done"
    /\ m_config.has_checker
    /\ ~m_config.run_after_each_pass
    /\ Len(runs) = 2
    /\ Len(calls) = 6
    /\ calls[3].call = "run_pass"
    /\ calls[4].call = "run_pass"
    /\ calls[5] = [call |-> "type_checker", at |-> 2, pass |-> 0]
    /\ calls[6] = [call |-> "type_checker", at |-> 0, pass |-> 0]

\* The names in redex.passes that no registered pass has.
unmatched ==
    {k \in 1 .. Len(m_config.passes) :
       \A j \in 1 .. Len(m_registered_passes) :
         m_registered_passes[j] # m_config.passes[k]}

\* C19: with redex.passes the activated passes are, for the configured names
\* in their order and with their repeats, the first registered pass of each
\* name, and configure_pass was called once per occurrence; construction
\* ends in the 'No pass named' assertion exactly when some configured name
\* matches no registered pass, at the first such name; without redex.passes
\* the activated passes are the registered ones and none is configured.
C19_Activation ==
    LET n == Len(m_activated_passes)
    IN /\ m_config.has_passes =>
            /\ n <= Len(m_config.passes)
            /\ \A k \in 1 .. n :
                 /\ m_registered_passes[m_activated_passes[k]] = m_config.passes[k]
                 /\ \A j \in 1 .. m_activated_passes[k] - 1 :
                      m_registered_passes[j] # m_config.passes[k]
            /\ configured = m_activated_passes
            /\ pc \notin {"init", "assert"} =>
                 n = Len(m_config.passes) /\ unmatched = {}
            /\ pc = "assert" =>
                 /\ outcome = "No pass named"
                 /\ n + 1 \in unmatched
                 /\ \A k \in unmatched : n + 1 <= k
                 /\ calls = <<>>
            /\ pc = "init" => n = idx - 1 /\ \A k \in unmatched : idx <= k
       /\ ~m_config.has_passes /\ pc # "init" =>
            /\ m_activated_passes = [k \in 1 .. Len(m_registered_passes) |-> k]
            /\ configured = <<>>
            /\ pc # "assert"

\* Two registered passes share a name that redex.passes lists twice: the
\* first of them is activated twice and configured twice.
C19_Witness ==
    /\ pc = "idle"
    /\ m_config.has_passes
    /\ Len(m_registered_passes) = 2
    /\ m_registered_passes[1] = m_registered_passes[2]
    /\ m_config.passes = <<m_registered_passes[1], m_registered_passes[1]>>
    /\ m_activated_passes = <<1, 1>>
    /\ configured = <<1, 1>>

\* C20: a metric accessor called while no pass is current never dereferences
\* the null current-pass pointer: get_metric, as incr_metric and set_metric
\* do, ends in the 'No current pass!' assertion and changes no metrics.
C20_Original ==
    [][\A key \in MetricKeys :
         ((IncrMetric(key, 1) \/ SetMetric(key, 1) \/ GetMetric(key))
            /\ m_current_pass_info = 0) =>
           /\ outcome' = "No current pass!"
           /\ pc' = "assert"
           /\ m_pass_info' = m_pass_info]_vars
====
